---- MODULE Spec2Model ----
(***************************************************************************)
(* tinylog: a tiny console logger for the `log` and `tracing` facades.     *)
(*                                                                         *)
(* Text is modelled as a sequence of one-character strings.  Characters    *)
(* that TLA+ strings cannot hold are named tokens: ESC is U+001B, and the  *)
(* five level icons are named by their code points.                        *)
(* Option<T> is modelled as a sequence: <<>> is None, <<v>> is Some(v).    *)
(***************************************************************************)
EXTENDS Integers, Sequences, FiniteSets, TLC

VARIABLES
    color,       \* Logger.color
    output,      \* the bytes the shared output stream has received: runs of bytes, each tagged with the call that wrote it
    lock,        \* Logger.output's Mutex: [holder, poisoned]
    BUF,         \* with_local_buf's thread_local RefCell<String>, per thread: [content, borrowed]
    stack,       \* per thread: the active log / on_event calls, outermost first
    panicked,    \* per thread: the cause of each panic that unwound a call on it, in order
    calls,       \* every call started so far: its input, by call id
    spans,       \* the tracing registry: per span id its name, parent and SpanData
    clock,       \* the last value Instant::now() returned, a Duration since an arbitrary origin
    prefixCall,  \* one call of write_prefix on an empty String: its inputs and its result
    indentCall,  \* one string pushed through Indented both ways: push_str and push per char
    visitCall    \* fields recorded one after the other by a FieldVisitor on a String

vars == <<color, output, lock, BUF, stack, panicked, calls, spans, clock, prefixCall, indentCall, visitCall>>

------------------------------------------------------------------------------
(* Bounds of the model *)

MaxStrLen == 3
MaxIndent == 2
MaxCalls == 2
MaxPartialWrites == 1
MaxOps == 3
MaxFields == 2

------------------------------------------------------------------------------
(* Characters and text *)

NANOS_PER_MILLISECOND == 1000000
NANOS_PER_SECOND == 1000000000

ESC == "ESC"
NL == "\n"
SP == " "

Digits == <<"0", "1", "2", "3", "4", "5", "6", "7", "8", "9">>

Min(S) == CHOOSE x \in S : \A y \in S : x <= y

Last(s) == s[Len(s)]

RECURSIVE Flatten(_)
Flatten(ss) == IF ss = <<>> THEN <<>> ELSE Head(ss) \o Flatten(Tail(ss))

Count(s, c) == Cardinality({i \in DOMAIN s : s[i] = c})

RECURSIVE Spaces(_)
Spaces(n) == IF n = 0 THEN <<>> ELSE <<SP>> \o Spaces(n - 1)

IsPrefixOf(p, s) == Len(p) <= Len(s) /\ SubSeq(s, 1, Len(p)) = p

IsSuffixOf(p, s) == Len(p) <= Len(s) /\ SubSeq(s, Len(s) - Len(p) + 1, Len(s)) = p

\* itoa::Buffer::new().format(n) for an unsigned integer: plain decimal digits
RECURSIVE itoa(_)
itoa(n) == IF n < 10 THEN <<Digits[n + 1]>> ELSE itoa(n \div 10) \o <<Digits[(n % 10) + 1]>>

\* str::split(pat): the pieces between the leftmost non-overlapping matches of pat
RECURSIVE split(_, _)
split(s, pat) ==
    LET n == Len(pat)
        hits == {i \in 1..(Len(s) - n + 1) : SubSeq(s, i, i + n - 1) = pat}
    IN IF hits = {} THEN <<s>>
       ELSE LET i == Min(hits)
            IN <<SubSeq(s, 1, i - 1)>> \o split(SubSeq(s, i + n, Len(s)), pat)

------------------------------------------------------------------------------
(* util.rs: StringLike and Indented *)

\* A sink is a String, [kind |-> "String", output], or an Indented wrapping a
\* String, [kind |-> "Indented", output, indent].
StringSink(text) == [kind |-> "String", output |-> text, indent |-> 0]

Indented_new(text, indent) == [kind |-> "Indented", output |-> text, indent |-> indent]

String_push(self, c) == [self EXCEPT !.output = Append(@, c)]

String_push_str(self, s) == [self EXCEPT !.output = @ \o s]

Indented_push(self, c) ==
    IF c = NL
    THEN [self EXCEPT !.output = (@ \o <<NL>>) \o Spaces(self.indent)]
    ELSE [self EXCEPT !.output = Append(@, c)]

RECURSIVE Indented_push_lines(_, _)
Indented_push_lines(self, lines) ==
    IF lines = <<>> THEN self
    ELSE Indented_push_lines(
            [self EXCEPT !.output = ((@ \o <<NL>>) \o Spaces(self.indent)) \o Head(lines)],
            Tail(lines))

\* a push_str that writes as many spaces as it reserves bytes (indent + 1)
Indented_push_str_reserved(self, s) ==
    LET lines == split(s, <<NL>>)
    IN Indented_push_lines([self EXCEPT !.output = @ \o Head(lines), !.indent = @ + 1],
                           Tail(lines))

Indented_push_str(self, s) ==
    LET lines == split(s, <<NL>>)
    IN Indented_push_lines([self EXCEPT !.output = @ \o Head(lines)], Tail(lines))

push(sink, c) == IF sink.kind = "Indented" THEN Indented_push(sink, c) ELSE String_push(sink, c)

push_str(sink, s) ==
    IF sink.kind = "Indented" THEN Indented_push_str(sink, s) ELSE String_push_str(sink, s)

------------------------------------------------------------------------------
(* compat.rs: Level and Metadata; lib.rs: PrefixOptions and write_prefix *)

Levels == {"Trace", "Debug", "Info", "Warn", "Error"}

\* (icon, level_str, color_code) of a level
LevelTable(level) ==
    CASE level = "Trace" -> [icon |-> "U+2192", level_str |-> <<"t", "r", "a", "c", "e">>, color_code |-> "4"]
      [] level = "Debug" -> [icon |-> "U+25CB", level_str |-> <<"d", "e", "b", "u", "g">>, color_code |-> "6"]
      [] level = "Info"  -> [icon |-> "U+25CF", level_str |-> <<"i", "n", "f", "o">>, color_code |-> "2"]
      [] level = "Warn"  -> [icon |-> "U+26A0", level_str |-> <<"w", "a", "r", "n">>, color_code |-> "3"]
      [] level = "Error" -> [icon |-> "U+2718", level_str |-> <<"e", "r", "r", "o", "r">>, color_code |-> "1"]

Icons == {LevelTable(l).icon : l \in Levels}

\* an alignment that pads every level
write_prefix_align_all(out, meta, options) ==
    IF options.align THEN push(out, SP) ELSE out

write_prefix_align(out, meta, options) ==
    IF options.align /\ meta.level \in {"Info", "Warn"} THEN push(out, SP) ELSE out

write_prefix_icon(col, out, meta) ==
    LET t == LevelTable(meta.level)
        o1 == IF col THEN push(push(push_str(out, <<ESC, "[", "9">>), t.color_code), "m") ELSE out
    IN push(push(o1, t.icon), SP)

write_prefix_level(col, out, meta) ==
    LET t == LevelTable(meta.level)
        o1 == IF col THEN push_str(out, <<ESC, "[", "1", ";", "4", "m">>) ELSE out
        o2 == push_str(o1, t.level_str)
        o3 == IF col THEN push(push(push_str(o2, <<ESC, "[", ";", "3">>), t.color_code), "m") ELSE o2
    IN push(o3, SP)

RECURSIVE write_prefix_parts(_, _)
write_prefix_parts(out, parts) ==
    IF parts = <<>> THEN out
    ELSE write_prefix_parts(push_str(push(out, "/"), Head(parts)), Tail(parts))

\* a prefix that copies the module path as it is
write_prefix_module_path_raw(out, meta) == push_str(out, meta.module_path)

write_prefix_module_path(out, meta) ==
    LET module_path_parts == split(meta.module_path, <<":", ":">>)
    IN write_prefix_parts(push_str(out, Head(module_path_parts)), Tail(module_path_parts))

write_prefix_line(col, out, meta) ==
    IF meta.line /= <<>>
    THEN LET o1 == IF col THEN push_str(out, <<ESC, "[", "2", "m">>) ELSE out
         IN push_str(push(o1, ":"), itoa(meta.line[1]))
    ELSE out

\* options.time is the wall-clock time already converted to the logger's
\* timezone: [hour, minute, second, year, month, day]
write_prefix_time(col, out, options) ==
    IF options.time /= <<>>
    THEN LET time == options.time[1]
             o1 == push(out, SP)
             o2 == IF col THEN push_str(o1, <<ESC, "[", ";", "2", "m">>) ELSE o1
             am_or_pm == IF time.hour >= 12 THEN "P" ELSE "A"
             hour == IF time.hour >= 12 /\ time.hour /= 12 THEN time.hour - 12 ELSE time.hour
             o3 == push(push_str(o2, itoa(hour)), ":")
             o4 == IF time.minute < 10 THEN push(o3, "0") ELSE o3
             o5 == push(push_str(o4, itoa(time.minute)), ":")
             o6 == IF time.second < 10 THEN push(o5, "0") ELSE o5
             o7 == push_str(o6, itoa(time.second))
             o8 == push_str(push(push(o7, "-"), am_or_pm), <<"M", "-">>)
             o9 == push(push_str(o8, itoa(time.year)), "/")
             o10 == push(push_str(o9, itoa(time.month)), "/")
         IN push_str(o10, itoa(time.day))
    ELSE out

\* a prefix that leaves the last colour open
write_prefix_reset_missing(col, out) == out

\* a prefix that resets the colour whether or not colour is on
write_prefix_reset_always(col, out) == push_str(out, <<ESC, "[", "m">>)

write_prefix_reset(col, out) == IF col THEN push_str(out, <<ESC, "[", "m">>) ELSE out

write_prefix(col, out, meta, options) ==
    LET o1 == write_prefix_align(out, meta, options)
        o2 == write_prefix_icon(col, o1, meta)
        o3 == write_prefix_level(col, o2, meta)
        o4 == write_prefix_module_path(o3, meta)
        o5 == write_prefix_line(col, o4, meta)
        o6 == write_prefix_time(col, o5, options)
    IN write_prefix_reset(col, o6)

------------------------------------------------------------------------------
(* Inputs of the pure-function specifications *)

ModulePaths ==
    { <<"a">>,
      <<"a", ":", ":", "b">>,
      <<"a", ":", ":", "b", ":", ":", "c">>,
      <<"a", ":", "b">>,
      <<>> }

Lines == {<<>>, <<0>>, <<7>>, <<42>>}

Metas == [level : Levels, module_path : ModulePaths, line : Lines]

Times ==
    {<<>>} \cup
    { <<[hour |-> h, minute |-> m, second |-> s, year |-> 2024, month |-> 3, day |-> 9]>> :
        h \in {0, 1, 11, 12, 13, 23}, m \in {5, 10}, s \in {9, 59} }

AllPrefixOptions == [align : BOOLEAN, time : Times]

Alphabet == {"a", NL, SP}

Strings(n) == UNION {[1..k -> Alphabet] : k \in 0..n}

------------------------------------------------------------------------------
(* State outside a specification's scope stays at these idle values *)

IdleLock == [holder |-> 0, poisoned |-> FALSE]

IdlePrefixCall == [meta |-> <<>>, options |-> <<>>, result |-> <<>>]

IdleIndentCall == [indent |-> 0, s |-> <<>>, target |-> <<>>, viaStr |-> <<>>, viaChar |-> <<>>, i |-> 0]

IdleVisitCall == [fields |-> <<>>, i |-> 0, target |-> <<>>, content |-> <<>>]

CoreIdle ==
    /\ output = <<>>
    /\ lock = IdleLock
    /\ BUF = <<>>
    /\ stack = <<>>
    /\ panicked = <<>>
    /\ calls = <<>>
    /\ spans = <<>>
    /\ clock = [secs |-> 0, nanos |-> 0]

coreVars == <<output, lock, BUF, stack, panicked, calls, spans, clock>>

------------------------------------------------------------------------------
(* SpecPrefix: one call of write_prefix on an empty String, for every input *)

InitPrefix ==
    /\ color \in BOOLEAN
    /\ \E meta \in Metas, options \in AllPrefixOptions :
          prefixCall = [meta |-> <<meta>>, options |-> <<options>>, result |-> <<>>]
    /\ indentCall = IdleIndentCall
    /\ visitCall = IdleVisitCall
    /\ CoreIdle

CallWritePrefix ==
    /\ prefixCall.result = <<>>
    /\ prefixCall' = [prefixCall EXCEPT !.result =
          <<write_prefix(color, StringSink(<<>>), prefixCall.meta[1], prefixCall.options[1]).output>>]
    /\ UNCHANGED <<color, indentCall, visitCall, coreVars>>

NextPrefix == CallWritePrefix

SpecPrefix == InitPrefix /\ [][NextPrefix]_vars

------------------------------------------------------------------------------
(* SpecIndent: one string written through Indented as a whole and per char *)

InitIndent ==
    /\ color = FALSE
    /\ prefixCall = IdlePrefixCall
    /\ visitCall = IdleVisitCall
    /\ \E n \in 0..MaxIndent, s \in Strings(MaxStrLen), target \in {<<>>, <<"x">>, <<NL>>} :
          indentCall = [indent |-> n, s |-> s, target |-> target,
                        viaStr |-> <<>>, viaChar |-> target, i |-> 0]
    /\ CoreIdle

\* Indented::new(target, indent).push_str(s)
CallPushStr ==
    /\ indentCall.viaStr = <<>>
    /\ indentCall' = [indentCall EXCEPT !.viaStr =
          <<push_str(Indented_new(indentCall.target, indentCall.indent), indentCall.s).output>>]
    /\ UNCHANGED <<color, prefixCall, visitCall, coreVars>>

\* Indented::new(target, indent).push(c) for the next character c of s
CallPush ==
    /\ indentCall.i < Len(indentCall.s)
    /\ indentCall' = [indentCall EXCEPT
          !.viaChar = push(Indented_new(@, indentCall.indent), indentCall.s[indentCall.i + 1]).output,
          !.i = @ + 1]
    /\ UNCHANGED <<color, prefixCall, visitCall, coreVars>>

NextIndent == CallPushStr \/ CallPush

SpecIndent == InitIndent /\ [][NextIndent]_vars

------------------------------------------------------------------------------
(* The logger shared by the threads: inputs *)

Threads == {1, 2}

T1 == <<[hour |-> 13, minute |-> 5, second |-> 9, year |-> 2024, month |-> 3, day |-> 9]>>

LitRecord(level, path, line, text) ==
    [kind |-> "log", meta |-> [level |-> level, module_path |-> path, line |-> line],
     time |-> T1, as_str |-> <<text>>, items |-> <<>>]

FmtRecord(level, path, line, items) ==
    [kind |-> "log", meta |-> [level |-> level, module_path |-> path, line |-> line],
     time |-> T1, as_str |-> <<>>, items |-> items]

\* the pieces write_fmt hands to the sink, one per Display value or literal piece:
\* text written, a Display impl that returns Err(fmt::Error), or a Display
\* impl that itself logs a record and then writes text
Lit(text) == [op |-> "lit", text |-> text]

Failing == [op |-> "err"]

Logging(record, text) == [op |-> "log", record |-> record, text |-> text]

RecHi == LitRecord("Info", <<"a">>, <<7>>, <<"h", "i">>)

RecEmpty == LitRecord("Error", <<"a", ":", ":", "b">>, <<>>, <<>>)

RecLines == FmtRecord("Warn", <<"a">>, <<>>, <<Lit(<<"x", NL>>), Lit(<<ESC, NL>>)>>)

RecFails == FmtRecord("Debug", <<"a">>, <<>>, <<Lit(<<"x">>), Failing>>)

RecNested == FmtRecord("Trace", <<"b">>, <<>>, <<Lit(<<"o">>), Logging("RecEmpty", <<"k">>)>>)

LogRecords == {"RecHi", "RecLines", "RecFails", "RecNested"}

\* the fields a tracing event or span hands to the visitor: a typed value, a
\* value whose Debug impl returns Err(fmt::Error), or a value whose Debug impl
\* logs a record and then writes text
message == <<"m", "e", "s", "s", "a", "g", "e">>

Field(name, ty, v) == [op |-> "lit", name |-> name, ty |-> ty, v |-> v]

FailingField(name) == [op |-> "err", name |-> name, ty |-> "debug", v |-> <<>>]

LoggingField(name, record, text) ==
    [op |-> "log", name |-> name, ty |-> "debug", v |-> text, record |-> record]

Event(level, path, fields) ==
    [kind |-> "event", meta |-> [level |-> level, module_path |-> path, line |-> <<>>],
     time |-> T1, as_str |-> <<>>, items |-> fields]

EvGo == Event("Info", <<"a">>, <<Field(message, "str", <<"g", "o">>)>>)

EvFields ==
    Event("Warn", <<"a">>, <<Field(message, "debug", <<"h", NL, "i">>),
                             Field(<<"n">>, "u64", 5),
                             Field(<<"s">>, "str", <<"q", NL>>),
                             Field(<<"b">>, "bool", TRUE)>>)

EvFails == Event("Error", <<"a">>, <<Field(<<"n">>, "u64", 5), FailingField(<<"d">>)>>)

EvLogs == Event("Debug", <<"a">>, <<LoggingField(<<"d">>, "RecHi", <<"k">>)>>)

Events == {"EvGo", "EvFields", "EvFails"}

\* the records and events of the modelled programs, by name
Input(name) ==
    CASE name = "RecHi" -> RecHi
      [] name = "RecEmpty" -> RecEmpty
      [] name = "RecLines" -> RecLines
      [] name = "RecFails" -> RecFails
      [] name = "RecNested" -> RecNested
      [] name = "EvGo" -> EvGo
      [] name = "EvFields" -> EvFields
      [] name = "EvFails" -> EvFails
      [] name = "EvLogs" -> EvLogs

SpanAttrs(name, level, fields) ==
    [name |-> name, meta |-> [level |-> level, module_path |-> <<"a">>, line |-> <<3>>],
     fields |-> fields]

X1 == Field(<<"x">>, "u64", 1)

AllSpanAttrs ==
    { SpanAttrs(<<"o", "u", "t", "e", "r">>, "Info", <<X1>>),
      SpanAttrs(<<"i", "n", "n", "e", "r">>, "Debug", <<X1>>),
      SpanAttrs(<<>>, "Info", <<>>),
      SpanAttrs(<<"f">>, "Info", <<X1, FailingField(<<"d">>)>>) }

RecordValues == { <<Field(<<"y">>, "str", <<"v">>)>>, <<X1, FailingField(<<"d">>)>> }

\* the values Instant::now() takes, in order
Instants ==
    << [secs |-> 0, nanos |-> 0],
       [secs |-> 0, nanos |-> 2500000],
       [secs |-> 1, nanos |-> 502500000] >>

------------------------------------------------------------------------------
(* tracing_impl/visitor.rs: FieldVisitor *)

\* <str as Debug>::fmt: the string quoted, with its special characters escaped
escape_debug(c) ==
    CASE c = NL -> <<"\\", "n">>
      [] c = "\"" -> <<"\\", "\"">>
      [] c = "\\" -> <<"\\", "\\">>
      [] c = ESC -> <<"\\", "u", "{", "1", "b", "}">>
      [] OTHER -> <<c>>

str_debug(s) == (<<"\"">> \o Flatten([i \in 1..Len(s) |-> escape_debug(s[i])])) \o <<"\"">>

\* a visitor that names every field
write_field_named(sink, name) == push_str(push_str(push(sink, NL), name), <<":", " ">>)

write_field(sink, name) ==
    IF name /= message
    THEN push_str(push_str(push(sink, NL), name), <<":", " ">>)
    ELSE push(sink, NL)

\* field.v is the text the value's Debug impl writes
record_debug(sink, field) == push_str(write_field(sink, field.name), field.v)

record_str(sink, field) ==
    IF field.name = message
    THEN push_str(write_field(sink, field.name), field.v)
    ELSE push_str(write_field(sink, field.name), str_debug(field.v))

record_bool(sink, field) ==
    push_str(write_field(sink, field.name),
             IF field.v THEN <<"t", "r", "u", "e">> ELSE <<"f", "a", "l", "s", "e">>)

record_u64(sink, field) == push_str(write_field(sink, field.name), itoa(field.v))

\* the Visit method the field's type selects
visit(sink, field) ==
    CASE field.ty = "debug" -> record_debug(sink, field)
      [] field.ty = "str" -> record_str(sink, field)
      [] field.ty = "bool" -> record_bool(sink, field)
      [] field.ty = "u64" -> record_u64(sink, field)

\* attrs.record(&mut visitor) / values.record(&mut visitor): every field in
\* order, up to one whose Debug impl fails (write_field has run by then)
RECURSIVE record_all(_, _)
record_all(sink, fields) ==
    IF fields = <<>> THEN [sink |-> sink, ok |-> TRUE]
    ELSE IF Head(fields).op = "err"
         THEN [sink |-> write_field(sink, Head(fields).name), ok |-> FALSE]
         ELSE record_all(visit(sink, Head(fields)), Tail(fields))

------------------------------------------------------------------------------
(* tracing_impl/mod.rs: the span walk of on_event *)

\* Instant - Instant, as a Duration
Elapsed(later, earlier) ==
    IF later.nanos >= earlier.nanos
    THEN [secs |-> later.secs - earlier.secs, nanos |-> later.nanos - earlier.nanos]
    ELSE [secs |-> later.secs - earlier.secs - 1,
          nanos |-> later.nanos + NANOS_PER_SECOND - earlier.nanos]

Before_(a, b) == a.secs < b.secs \/ (a.secs = b.secs /\ a.nanos < b.nanos)

RECURSIVE StripZeros(_)
StripZeros(ds) == IF Len(ds) > 1 /\ Last(ds) = "0" THEN StripZeros(SubSeq(ds, 1, Len(ds) - 1)) ELSE ds

\* ryu::Buffer::new().format(seconds + milliseconds / 1000.0): the decimal
\* digits of the sum (exact where the sum is a representable double)
ryu_format(seconds, milliseconds) ==
    (itoa(seconds) \o <<".">>) \o
    StripZeros(<<Digits[(milliseconds \div 100) + 1], Digits[((milliseconds \div 10) % 10) + 1],
                 Digits[(milliseconds % 10) + 1]>>)

write_elapsed_value(i_buf, time_passed) ==
    IF time_passed.secs = 0
    THEN push(push_str(i_buf, itoa(time_passed.nanos \div NANOS_PER_MILLISECOND)), "m")
    ELSE push_str(i_buf, ryu_format(time_passed.secs,
                                    time_passed.nanos \div NANOS_PER_MILLISECOND))

write_elapsed_open(col, i_buf) ==
    IF col THEN push(push_str(push(i_buf, SP), <<ESC, "[", "2", "m">>), "(")
    ELSE push(push(i_buf, SP), "(")

write_elapsed_close(col, i_buf) ==
    IF col THEN push_str(push_str(i_buf, <<"s", " ", "a", "g", "o", ")">>), <<ESC, "[", "m">>)
    ELSE push_str(i_buf, <<"s", " ", "a", "g", "o", ")">>)

\* if at least 1 millisecond has passed, print it
write_elapsed(col, i_buf, time_passed) ==
    IF time_passed.nanos >= NANOS_PER_MILLISECOND \/ time_passed.secs > 0
    THEN write_elapsed_close(col,
            write_elapsed_value(write_elapsed_open(col, i_buf), time_passed))
    ELSE i_buf

write_span_prefix(i_buf, prefix) ==
    [push_str(push([i_buf EXCEPT !.indent = @ - 2], NL), prefix) EXCEPT !.indent = @ + 2]

write_span_name(i_buf, name) ==
    IF name /= <<>> THEN push_str(push(i_buf, NL), name) ELSE i_buf

\* one iteration of `for span in parent_span.scope()`
write_span(col, i_buf, span, event_timestamp) ==
    push_str(
        write_span_name(
            write_elapsed(col,
                write_span_prefix(i_buf, SubSeq(span.content, 1, span.prefix_end_index)),
                Elapsed(event_timestamp, span.timestamp)),
            span.name),
        SubSeq(span.content, span.prefix_end_index + 1, Len(span.content)))

\* a scope walked from the root: the outermost span first
RECURSIVE scope_from_root(_, _)
scope_from_root(registry, id) ==
    IF id = 0 THEN <<>> ELSE scope_from_root(registry, registry[id].parent) \o <<id>>

\* parent_span.scope(): the span and its ancestors, innermost first
RECURSIVE scope(_, _)
scope(registry, id) == IF id = 0 THEN <<>> ELSE <<id>> \o scope(registry, registry[id].parent)

RECURSIVE write_scope(_, _, _, _, _)
write_scope(col, i_buf, registry, ids, event_timestamp) ==
    IF ids = <<>> THEN i_buf
    ELSE write_scope(col, write_span(col, i_buf, registry[Head(ids)], event_timestamp),
                     registry, Tail(ids), event_timestamp)

------------------------------------------------------------------------------
(* SpecVisitor: fields recorded by a FieldVisitor on a String, as on_new_span
   and on_record do *)

count == <<"c", "o", "u", "n", "t">>

\* the fields a program records: the message or a named field, as a string, a
\* Debug value (by the text its Debug impl writes), a bool or an integer
VisitFields ==
    { Field(name, "str", v) : name \in {message, count},
                              v \in {<<"h", "i">>, <<>>, <<"q", NL>>, <<"\"">>} }
    \cup { Field(name, "debug", v) : name \in {message, count},
                                    v \in {<<"h", "i">>, <<"[", "1", "]">>} }
    \cup { Field(name, "bool", v) : name \in {message, count}, v \in BOOLEAN }
    \cup { Field(name, "u64", v) : name \in {message, count}, v \in {0, 5, 42} }

InitVisit ==
    /\ color = FALSE
    /\ prefixCall = IdlePrefixCall
    /\ indentCall = IdleIndentCall
    /\ \E k \in 1..MaxFields, target \in {<<>>, <<"p">>} : \E fields \in [1..k -> VisitFields] :
          visitCall = [fields |-> fields, i |-> 0, target |-> target, content |-> target]
    /\ CoreIdle

\* the next field's Visit callback on FieldVisitor::new(&mut content)
VisitField ==
    /\ visitCall.i < Len(visitCall.fields)
    /\ visitCall' = [visitCall EXCEPT
          !.content = visit(StringSink(@), visitCall.fields[visitCall.i + 1]).output,
          !.i = @ + 1]
    /\ UNCHANGED <<color, prefixCall, indentCall, coreVars>>

NextVisit == VisitField

SpecVisitor == InitVisit /\ [][NextVisit]_vars

------------------------------------------------------------------------------
(* util.rs: with_local_buf; log_impl.rs: Log for Logger *)

\* a with_local_buf that hands out the thread-local String whether or not it is borrowed
try_borrow_mut_unchecked(cell) == TRUE

\* ref_cell.try_borrow_mut().ok(): whether the call gets the thread-local String
try_borrow_mut(cell) == ~cell.borrowed

\* a lock that never blocks
lock_available_always(l) == TRUE

\* Mutex::lock blocks while another guard is alive
lock_available(l) == l.holder = 0

\* self.output.lock().unwrap(): a poisoned lock panics
lock_guard_unwrap(l) == IF l.poisoned THEN "panic" ELSE "ok"

\* self.output.lock().unwrap_or_else(|e| e.into_inner()): a poisoned lock's
\* guard is taken out of the error and used
lock_guard(l) == IF l.poisoned THEN "into_inner" ELSE "ok"

\* a guard that outlives the call
guard_kept(l) == l

\* the MutexGuard is dropped at the end of the closure (or of flush): the lock is free
guard_dropped(l) == [l EXCEPT !.holder = 0]

\* the stream after call id wrote bytes to it
received(stream, id, bytes) ==
    IF stream /= <<>> /\ Last(stream).id = id
    THEN [stream EXCEPT ![Len(stream)].bytes = @ \o bytes]
    ELSE Append(stream, [id |-> id, bytes |-> bytes])

\* io::Write::write on `remaining` bytes: the numbers of bytes the stream may accept
stream_write(remaining) == {remaining, (remaining + 1) \div 2}

\* the spans of the registry that carry a SpanData: a program can only name
\* (as a parent, or to record values on) a span whose creation returned
Open == {id \in DOMAIN spans : spans[id].data}

Depth(t) == Len(stack[t])

RECURSIVE SumRecords(_)
SumRecords(registry) ==
    IF registry = <<>> THEN 0 ELSE Head(registry).records + SumRecords(Tail(registry))

\* the values Instant::now() may return: the clock is monotonic
Now == {Instants[i] : i \in {j \in DOMAIN Instants : ~Before_(Instants[j], clock)}}

\* the tracing calls made so far: spans created, values recorded, events emitted
OpsDone == Len(spans) + SumRecords(spans) + Len(calls)

Top(t) == stack[t][Depth(t)]

\* the String a call's closure was handed
BufOf(t, f) == IF f.local THEN BUF[t].content ELSE f.fresh

\* the closure's frame f (the innermost of thread t) continues as nf with its buffer holding text
Continue(t, nf, text) ==
    /\ BUF' = IF nf.local THEN [BUF EXCEPT ![t].content = text] ELSE BUF
    /\ stack' = [stack EXCEPT ![t][Depth(t)] = IF nf.local THEN nf ELSE [nf EXCEPT !.fresh = text]]

\* a panic of thread t inside call id (0: outside log and on_event), the
\* thread-local String holding tls: every call on the thread is unwound, the
\* RefMut of BUF is dropped, and a MutexGuard dropped while panicking poisons
\* the lock
Panic(t, id, cause, tls) ==
    /\ stack' = [stack EXCEPT ![t] = <<>>]
    /\ BUF' = [BUF EXCEPT ![t] = [content |-> tls, borrowed |-> FALSE]]
    /\ lock' = IF lock.holder = t THEN [holder |-> 0, poisoned |-> TRUE] ELSE lock
    /\ panicked' = [panicked EXCEPT ![t] = Append(@, [id |-> id, cause |-> cause])]
    /\ calls' = [c \in DOMAIN calls |->
                    IF calls[c].thread = t /\ calls[c].status = "active"
                    THEN [calls[c] EXCEPT !.status = "panicked"] ELSE calls[c]]

NewFrame(id, local) ==
    [id |-> id, pc |-> "fmt", local |-> local, fresh |-> <<>>, idx |-> 1, nested |-> FALSE,
     pos |-> 0, writes |-> 0]

\* the closure of Logger::log up to the formatting of the arguments: buf.clear(),
\* the prefix, and a literal message whole
log_render(col, record) ==
    LET prefix == write_prefix(col, StringSink(<<>>), record.meta,
                               [align |-> TRUE, time |-> record.time]).output
    IN IF record.as_str /= <<>>
       THEN (IF record.as_str[1] /= <<>>
             THEN [done |-> TRUE,
                   text |-> Append(push_str(push(Indented_new(prefix, 8), NL),
                                            record.as_str[1]).output, NL)]
             ELSE [done |-> TRUE, text |-> Append(prefix, NL)])
       ELSE [done |-> FALSE, text |-> push(Indented_new(prefix, 8), NL).output]

\* the closure of on_event up to the recording of the fields: buf.clear() and the prefix
on_event_render(col, event) ==
    [done |-> FALSE,
     text |-> write_prefix(col, StringSink(<<>>), event.meta,
                           [align |-> TRUE, time |-> event.time]).output]

\* with_local_buf(closure) entered on thread t by call `input` whose closure
\* starts by rendering r: the call is the thread's program's (the stack is
\* empty) or is made by a Display or Debug impl while an outer call formats
enter(t, input, parent, now, r) ==
    \E local \in {try_borrow_mut(BUF[t])} :
       /\ clock' = now
       /\ calls' = Append(calls, [thread |-> t, input |-> input, depth |-> Depth(t) + 1,
                                  parent |-> parent, instant |-> now, status |-> "active",
                                  buf |-> IF r.done THEN <<r.text>> ELSE <<>>])
       /\ BUF' = IF local THEN [BUF EXCEPT ![t] = [content |-> r.text, borrowed |-> TRUE]] ELSE BUF
       /\ stack' = [stack EXCEPT ![t] =
             Append(@, [NewFrame(Len(calls) + 1, local) EXCEPT
                                 !.fresh = IF local THEN <<>> ELSE r.text,
                                 !.pc = IF r.done THEN "lock" ELSE "fmt"])]

\* Logger::log(record)
log(t, record) == \E r \in {log_render(color, Input(record))} : enter(t, record, 0, clock, r)

\* Logger::on_event(event, ctx), ctx.event_span(event) being `parent` (0: none)
\* and Instant::now() returning `now`
on_event(t, event, parent, now) ==
    \E r \in {on_event_render(color, Input(event))} : enter(t, event, parent, now, r)

CallLog(t) ==
    /\ Depth(t) = 0
    /\ Len(calls) < MaxCalls
    /\ \E record \in LogRecords : log(t, record)
    /\ UNCHANGED <<color, output, lock, panicked, spans, prefixCall, indentCall, visitCall>>

CallEvent(t, events, max, instants) ==
    /\ Depth(t) = 0
    /\ Len(calls) < max
    /\ \E event \in events, parent \in {0} \cup Open, now \in instants :
          on_event(t, event, parent, now)
    /\ UNCHANGED <<color, output, lock, panicked, spans, prefixCall, indentCall, visitCall>>

\* the sink after the item's text reached it: a piece of write_fmt through
\* Indented's fmt::Write, or a field through the visitor
item_text(i_buf, input, item) ==
    IF input.kind = "log" THEN push_str(i_buf, item.text) ELSE visit(i_buf, item)

\* a literal piece, a Display value's text or a field reaches the sink
FmtText(t) ==
    /\ Depth(t) > 0 /\ Top(t).pc = "fmt"
    /\ \E f \in {Top(t)} :
          /\ f.idx <= Len(Input(calls[f.id].input).items)
          /\ \E item \in {Input(calls[f.id].input).items[f.idx]} :
                /\ item.op = "lit" \/ (item.op = "log" /\ f.nested)
                /\ Continue(t, [f EXCEPT !.idx = @ + 1, !.nested = FALSE],
                            item_text(Indented_new(BufOf(t, f), 8), Input(calls[f.id].input), item).output)
    /\ UNCHANGED <<color, output, lock, panicked, calls, spans, clock, prefixCall, indentCall, visitCall>>

\* a Display or Debug impl, run while the call formats, logs a record of its own
FmtLogs(t) ==
    /\ Depth(t) > 0 /\ Top(t).pc = "fmt"
    /\ \E f \in {Top(t)} :
          /\ f.idx <= Len(Input(calls[f.id].input).items)
          /\ \E item \in {Input(calls[f.id].input).items[f.idx]} :
                /\ item.op = "log" /\ ~f.nested
                /\ log(t, item.record)
    /\ UNCHANGED <<color, output, lock, panicked, spans, prefixCall, indentCall, visitCall>>

\* the thread-local String when the item at f.idx fails: a failing field has
\* had write_field run on it
tls_at_failure(t, f, input, item) ==
    IF f.local /\ input.kind = "event"
    THEN write_field(Indented_new(BUF[t].content, 8), item.name).output
    ELSE BUF[t].content

\* a Display or Debug impl returns Err(fmt::Error): .expect("fmt error") panics
FmtFails(t) ==
    /\ Depth(t) > 0 /\ Top(t).pc = "fmt"
    /\ \E f \in {Top(t)} :
          /\ f.idx <= Len(Input(calls[f.id].input).items)
          /\ \E item \in {Input(calls[f.id].input).items[f.idx]} :
                /\ item.op = "err"
                /\ Panic(t, f.id, "fmt", tls_at_failure(t, f, Input(calls[f.id].input), item))
    /\ UNCHANGED <<color, output, spans, clock, prefixCall, indentCall, visitCall>>

\* what follows the arguments or fields: for an event the block of every span
\* of its scope, then buf.push('\n')
finish(col, text, call, registry) ==
    IF Input(call.input).kind = "event"
    THEN Append(write_scope(col, Indented_new(text, 8), registry,
                            scope(registry, call.parent), call.instant).output, NL)
    ELSE Append(text, NL)

\* the arguments or fields are all written: the buffer is completed and the
\* call goes on to lock the output
FmtDone(t) ==
    /\ Depth(t) > 0 /\ Top(t).pc = "fmt"
    /\ \E f \in {Top(t)} :
          /\ f.idx > Len(Input(calls[f.id].input).items)
          /\ \E text \in {finish(color, BufOf(t, f), calls[f.id], spans)} :
                /\ Continue(t, [f EXCEPT !.pc = "lock"], text)
                /\ calls' = [calls EXCEPT ![f.id].buf = <<text>>]
    /\ UNCHANGED <<color, output, lock, panicked, spans, clock, prefixCall, indentCall, visitCall>>

\* let mut output = self.output.lock().unwrap_or_else(|e| e.into_inner())
Lock(t) ==
    /\ Depth(t) > 0 /\ Top(t).pc = "lock"
    /\ lock_available(lock)
    /\ IF lock_guard(lock) = "panic"
       THEN /\ Panic(t, Top(t).id, "poison", BUF[t].content)
            /\ UNCHANGED <<color, output, spans, clock, prefixCall, indentCall, visitCall>>
       ELSE /\ lock' = [lock EXCEPT !.holder = t]
            /\ stack' = [stack EXCEPT ![t][Depth(t)].pc = "write"]
            /\ UNCHANGED <<color, output, BUF, panicked, calls, spans, clock, prefixCall, indentCall, visitCall>>

\* output.write_all(buf.as_bytes()): one write call of its loop accepts n
\* bytes; the stream accepts less than it is given at most `partial` times
Write(t, partial) ==
    /\ Depth(t) > 0 /\ Top(t).pc = "write"
    /\ \E f \in {Top(t)} : \E buf \in {BufOf(t, f)} :
          /\ f.pos < Len(buf)
          /\ \E n \in stream_write(Len(buf) - f.pos) :
                /\ n = Len(buf) - f.pos \/ f.writes < partial
                /\ output' = received(output, f.id, SubSeq(buf, f.pos + 1, f.pos + n))
                /\ stack' = [stack EXCEPT ![t][Depth(t)].pos = @ + n,
                                          ![t][Depth(t)].writes = @ + 1]
    /\ UNCHANGED <<color, lock, BUF, panicked, calls, spans, clock, prefixCall, indentCall, visitCall>>

\* one write call of the loop returns an error: .expect("io error") panics
\* while the guard is alive
WriteFails(t) ==
    /\ Depth(t) > 0 /\ Top(t).pc = "write"
    /\ Top(t).pos < Len(BufOf(t, Top(t)))
    /\ Panic(t, Top(t).id, "io", BUF[t].content)
    /\ UNCHANGED <<color, output, spans, clock, prefixCall, indentCall, visitCall>>

\* write_all returned Ok: the guard and the RefMut are dropped and the call returns
Return(t) ==
    /\ Depth(t) > 0 /\ Top(t).pc = "write"
    /\ \E f \in {Top(t)} :
          /\ f.pos = Len(BufOf(t, f))
          /\ lock' = guard_dropped(lock)
          /\ BUF' = IF f.local THEN [BUF EXCEPT ![t].borrowed = FALSE] ELSE BUF
          /\ stack' = [stack EXCEPT ![t] =
                IF Depth(t) = 1 THEN <<>>
                ELSE [SubSeq(@, 1, Depth(t) - 1) EXCEPT ![Depth(t) - 1].nested = TRUE]]
          /\ calls' = [calls EXCEPT ![f.id].status = "returned"]
    /\ UNCHANGED <<color, output, panicked, spans, clock, prefixCall, indentCall, visitCall>>

\* Logger::on_new_span(attrs, id, ctx) for the span the registry just created:
\* the SpanData is inserted unless a field's Debug impl fails, and then
\* .expect("fmt error") panics and the span is left without one
on_new_span(t) ==
    /\ Depth(t) = 0
    /\ OpsDone < MaxOps
    /\ \E attrs \in AllSpanAttrs, parent \in {0} \cup Open, now \in Now :
       \E content \in {write_prefix(color, StringSink(<<>>), attrs.meta,
                                    [align |-> FALSE, time |-> <<>>])} :
       \E r \in {record_all(content, attrs.fields)} :
          /\ clock' = now
          /\ spans' = Append(spans,
                [name |-> attrs.name, parent |-> parent, meta |-> attrs.meta,
                 data |-> r.ok,
                 content |-> IF r.ok THEN r.sink.output ELSE <<>>,
                 prefix_end_index |-> IF r.ok THEN Len(content.output) ELSE 0,
                 timestamp |-> now, records |-> 0])
          /\ panicked' = IF r.ok THEN panicked
                         ELSE [panicked EXCEPT ![t] = Append(@, [id |-> 0, cause |-> "fmt"])]
    /\ UNCHANGED <<color, output, lock, BUF, stack, calls, prefixCall, indentCall, visitCall>>

\* a recording that starts from an empty String
record_values_anew(content, values) == record_all(StringSink(<<>>), values)

\* values.record(&mut FieldVisitor::new(&mut data.content))
record_values(content, values) == record_all(StringSink(content), values)

\* Logger::on_record(id, values, ctx): the fields are appended to the span's
\* content, up to one whose Debug impl fails, and then .expect("fmt error") panics
on_record(t) ==
    /\ Depth(t) = 0
    /\ OpsDone < MaxOps
    /\ \E id \in Open, values \in RecordValues :
          /\ \E r \in {record_values(spans[id].content, values)} :
                /\ spans' = [spans EXCEPT ![id].content = r.sink.output, ![id].records = @ + 1]
                /\ panicked' = IF r.ok THEN panicked
                               ELSE [panicked EXCEPT ![t] = Append(@, [id |-> 0, cause |-> "fmt"])]
    /\ UNCHANGED <<color, output, lock, BUF, stack, calls, clock, prefixCall, indentCall, visitCall>>

\* Logger::flush(), called by a thread that is not inside log or on_event:
\* let mut output = self.output.lock().unwrap_or_else(|e| e.into_inner())
\* returns once no other guard is alive
flush_lock(t) ==
    /\ Depth(t) = 0
    /\ lock_available(lock)
    /\ lock' = [lock EXCEPT !.holder = t]
    /\ stack' = [stack EXCEPT ![t] = <<[NewFrame(0, FALSE) EXCEPT !.pc = "flush"]>>]
    /\ UNCHANGED <<color, output, BUF, panicked, calls, spans, clock, prefixCall, indentCall, visitCall>>

\* output.flush() returned Ok: the guard is dropped and flush returns
flush_return(t) ==
    /\ Depth(t) > 0 /\ Top(t).pc = "flush"
    /\ lock' = guard_dropped(lock)
    /\ stack' = [stack EXCEPT ![t] = <<>>]
    /\ UNCHANGED <<color, output, BUF, panicked, calls, spans, clock, prefixCall, indentCall, visitCall>>

\* output.flush() returned an error: .expect("failed to flush log output")
\* panics while the guard is alive
\* (bounded: a flush fails only while no earlier failure has poisoned the lock)
flush_fails(t) ==
    /\ Depth(t) > 0 /\ Top(t).pc = "flush"
    /\ ~lock.poisoned
    /\ Panic(t, 0, "io", BUF[t].content)
    /\ UNCHANGED <<color, output, spans, clock, prefixCall, indentCall, visitCall>>

Init ==
    /\ color \in BOOLEAN
    /\ output = <<>>
    /\ lock = [holder |-> 0, poisoned |-> FALSE]
    /\ BUF = [t \in Threads |-> [content |-> <<>>, borrowed |-> FALSE]]
    /\ stack = [t \in Threads |-> <<>>]
    /\ panicked = [t \in Threads |-> <<>>]
    /\ calls = <<>>
    /\ spans = <<>>
    /\ clock = Instants[1]
    /\ prefixCall = IdlePrefixCall
    /\ indentCall = IdleIndentCall
    /\ visitCall = IdleVisitCall

\* Spec: the threads of a program log records and events through one Logger
Next ==
    \E t \in Threads :
        \/ CallLog(t)
        \/ CallEvent(t, {"EvLogs"}, MaxCalls, {clock})
        \/ FmtText(t)
        \/ FmtLogs(t)
        \/ FmtFails(t)
        \/ FmtDone(t)
        \/ Lock(t)
        \/ Write(t, MaxPartialWrites)
        \/ WriteFails(t)
        \/ Return(t)

Spec == Init /\ [][Next]_vars

\* SpecFlush: the threads of a program log, emit events and flush through one
\* Logger, on a stream that takes every buffer whole or fails
NextFlush ==
    \E t \in Threads :
        \/ CallLog(t)
        \/ CallEvent(t, {"EvLogs"}, MaxCalls, {clock})
        \/ FmtText(t)
        \/ FmtLogs(t)
        \/ FmtFails(t)
        \/ FmtDone(t)
        \/ Lock(t)
        \/ Write(t, 0)
        \/ WriteFails(t)
        \/ Return(t)
        \/ flush_lock(t)
        \/ flush_return(t)
        \/ flush_fails(t)

InitFlush == Init /\ ~color

SpecFlush == InitFlush /\ [][NextFlush]_vars

\* SpecTracing: one thread opens spans, records values on them and emits
\* events on a stream that takes every buffer whole; the program ends with its
\* last event
NextTracing ==
    \/ on_new_span(1)
    \/ on_record(1)
    \/ (OpsDone < MaxOps /\ CallEvent(1, Events, Len(calls) + 1, Now))
    \/ FmtText(1)
    \/ FmtFails(1)
    \/ FmtDone(1)
    \/ Lock(1)
    \/ Write(1, 0)
    \/ Return(1)

SpecTracing == Init /\ [][NextTracing]_vars

------------------------------------------------------------------------------
(* Properties of Indented (SpecIndent) *)

IndentDone == indentCall.viaStr /= <<>> /\ indentCall.i = Len(indentCall.s)

\* s with every '\n' followed by n spaces
RECURSIVE Reindent(_, _)
Reindent(s, n) ==
    IF s = <<>> THEN <<>>
    ELSE (IF Head(s) = NL THEN <<NL>> \o Spaces(n) ELSE <<Head(s)>>) \o Reindent(Tail(s), n)

\* C7: Indented(n).push_str(s) appends the same text as Indented(n).push(c) for
\* each character c of s in order, and that text is s with each '\n' followed
\* by exactly n spaces and every other character unchanged.
C7_PushStrEqualsPushPerChar ==
    IndentDone =>
        /\ indentCall.viaStr[1] = indentCall.viaChar
        /\ indentCall.viaStr[1] = indentCall.target \o Reindent(indentCall.s, indentCall.indent)

C7_Witness ==
    /\ IndentDone
    /\ indentCall.indent = 2
    /\ indentCall.s = <<"a", NL, "a">>
    /\ indentCall.viaChar = <<"a", NL, SP, SP, "a">>

------------------------------------------------------------------------------
(* Properties of write_prefix (SpecPrefix) *)

PrefixDone == prefixCall.result /= <<>>

PrefixMeta == prefixCall.meta[1]

PrefixOpts == prefixCall.options[1]

PrefixText == prefixCall.result[1]

RECURSIVE LeadingSpaces(_)
LeadingSpaces(s) == IF s /= <<>> /\ Head(s) = SP THEN 1 + LeadingSpaces(Tail(s)) ELSE 0

\* the text before the first occurrence of character c in s
Before(s, c) == SubSeq(s, 1, Min({i \in 1..Len(s) : s[i] = c}) - 1)

\* C9: with color on, the text write_prefix appends ends with the full reset
\* escape ESC[m, whatever the level, line, timestamp and alignment.
C9_ColorEndsWithReset ==
    (PrefixDone /\ color) => IsSuffixOf(<<ESC, "[", "m">>, PrefixText)

C9_Witness ==
    /\ PrefixDone /\ color
    /\ PrefixMeta.line = <<>> /\ PrefixOpts.time = <<>> /\ ~PrefixOpts.align
    /\ IsSuffixOf(<<"a", ESC, "[", "m">>, PrefixText)

\* C10: with alignment requested write_prefix emits exactly one space before
\* the icon for Info and Warn and none for Trace, Debug and Error; without
\* alignment it emits none for any level.
C10_AlignmentSpace ==
    PrefixDone =>
        LET icon == LevelTable(PrefixMeta.level).icon
            lead == Before(PrefixText, icon)
            want == IF PrefixOpts.align /\ PrefixMeta.level \in {"Info", "Warn"} THEN 1 ELSE 0
        IN /\ Count(lead, SP) = want
           /\ LeadingSpaces(PrefixText) = want

C10_Witness ==
    /\ PrefixDone /\ PrefixOpts.align /\ PrefixMeta.level = "Warn" /\ ~color
    /\ SubSeq(PrefixText, 1, 3) = <<SP, "U+26A0", SP>>

------------------------------------------------------------------------------
(* Properties of the shared logger (Spec) *)

\* the runs of the output stream that hold bytes of call id
Starts(id) ==
    {i \in 1..Len(output) : output[i].id = id}

\* the bytes of call id lie side by side in the output
Contiguous(id) == Cardinality(Starts(id)) <= 1

HasBytes(id) == Starts(id) /= {}

\* the bytes of call id in the output, in order
Bytes(id) ==
    LET sel == SelectSeq(output, LAMBDA e : e.id = id)
    IN  Flatten([k \in 1..Len(sel) |-> sel[k].bytes])

\* the buffer call id handed, or will hand, to write_all
Buffer(id) == IF calls[id].buf = <<>> THEN <<>> ELSE calls[id].buf[1]

PanickedWith(id, cause) ==
    \E t \in Threads : \E i \in DOMAIN panicked[t] : panicked[t][i] = [id |-> id, cause |-> cause]

\* C1 as stated: for any number of threads logging concurrently, the captured
\* output is a concatenation of whole per-event buffers: every event whose
\* write has ended has its whole buffer in the output as one contiguous block.
C1_WholeBuffers ==
    \A id \in DOMAIN calls :
        (HasBytes(id) /\ calls[id].status /= "active") =>
            Contiguous(id) /\ Bytes(id) = Buffer(id)

\* C1 as amended: the bytes of each event reach the output as one contiguous
\* block, never with bytes of another event between them; the block is the
\* event's whole buffer once its write returned, and a leading part of the
\* buffer while the write is under way or when the stream returned an error
\* during it.
C1_ContiguousBlocks ==
    \A id \in DOMAIN calls :
        /\ Contiguous(id)
        /\ IsPrefixOf(Bytes(id), Buffer(id))
        /\ calls[id].status = "returned" => Bytes(id) = Buffer(id)
        /\ (calls[id].status = "panicked" /\ HasBytes(id) /\ Bytes(id) /= Buffer(id))
              => PanickedWith(id, "io")

\* two threads were inside log at once (the call started second wrote first),
\* and both buffers are whole in the output
C1_Witness ==
    /\ Len(calls) >= 2
    /\ calls[1].thread /= calls[2].thread
    /\ calls[1].status = "returned" /\ calls[2].status = "returned"
    /\ calls[1].depth = 1 /\ calls[2].depth = 1
    /\ output[1].id = 2
    /\ Bytes(1) = Buffer(1) /\ Bytes(2) = Buffer(2)

\* the calls of thread t below its innermost one are formatting their
\* arguments, and only the outermost holds the thread-local String
NestedOnFresh ==
    \A t \in Threads :
        /\ BUF[t].borrowed = (Depth(t) >= 1)
        /\ \A i \in 1..Depth(t) :
              /\ stack[t][i].local = (i = 1)
              /\ i < Depth(t) => stack[t][i].pc = "fmt"
        /\ lock.holder = t => (Depth(t) >= 1 /\ Top(t).pc = "write")

\* no call panics on a borrow of the thread-local String
NoBorrowPanic ==
    \A t \in Threads : \A i \in DOMAIN panicked[t] : panicked[t][i].cause \in {"fmt", "io"}

\* while a nested call runs, and when it starts and returns, the outer call's
\* String and frame are as the outer call left them
OuterBufferKept ==
    \A t \in Threads :
        (Len(stack[t]) >= 2 \/ Len(stack'[t]) >= 2) =>
            /\ BUF'[t].content = BUF[t].content
            /\ (Len(stack[t]) >= 2 /\ Len(stack'[t]) >= 2) => stack'[t][1] = stack[t][1]

\* C2: a log call made on a thread while an outer with_local_buf call is
\* running does not panic or deadlock: it finds the thread-local slot borrowed
\* and runs on a fresh buffer, and the outer call's buffer is left unchanged
\* by the nested call.
C2_NestedCallKeepsOuterBuffer ==
    [](NestedOnFresh /\ NoBorrowPanic) /\ [][OuterBufferKept]_vars

\* a nested call has returned and the outer call goes on with its own text
C2_Witness ==
    \E t \in Threads :
        /\ Depth(t) = 1 /\ Top(t).nested /\ Top(t).local
        /\ calls[Top(t).id].input = "RecNested"
        /\ \E id \in DOMAIN calls :
              calls[id].depth = 2 /\ calls[id].thread = t /\ calls[id].status = "returned"
        /\ IsSuffixOf(<<NL>> \o Spaces(8) \o <<"o">>, BUF[t].content)

\* C3: when rendering one event fails, by a fmt error or by an I/O error of
\* the write, the logging call never panics.
C3_NeverPanics == \A t \in Threads : panicked[t] = <<>>

HasFailingItem(name) ==
    \E k \in DOMAIN Input(name).items : Input(name).items[k].op = "err"

\* C4: after an event whose render or write failed, also while holding the
\* output lock and so poisoning it, later events on any thread still take the
\* lock, get a buffer of their own and write their own complete line: a call
\* panics only on its own fmt or I/O failure, no ended call keeps the lock or
\* the thread-local String, and every call that returned has its whole
\* buffer, starting with its own prefix, in the output.
C4_FailureDoesNotBlockLaterEvents ==
    /\ \A t \in Threads : \A i \in DOMAIN panicked[t] :
          \/ panicked[t][i].cause = "io"
          \/ panicked[t][i].cause = "fmt" /\ HasFailingItem(calls[panicked[t][i].id].input)
    /\ \A t \in Threads :
          Depth(t) = 0 => (lock.holder /= t /\ ~BUF[t].borrowed)
    /\ \A id \in DOMAIN calls :
          calls[id].status = "returned" =>
              /\ Bytes(id) = Buffer(id)
              /\ Last(Buffer(id)) = NL
              /\ IsPrefixOf(write_prefix(color, StringSink(<<>>), Input(calls[id].input).meta,
                                         [align |-> TRUE, time |-> Input(calls[id].input).time]).output,
                            Buffer(id))

\* a write failed under the lock and poisoned it; a later call on the same
\* thread returned with its whole line written
C4_Witness ==
    /\ lock.poisoned
    /\ \E a, b \in DOMAIN calls :
          /\ a < b
          /\ calls[a].thread = calls[b].thread
          /\ PanickedWith(a, "io")
          /\ calls[b].status = "returned"
          /\ Bytes(b) = Buffer(b)

\* the call made its one write_all call
WroteOnce(id) == calls[id].status = "returned" \/ PanickedWith(id, "io")

\* C5: for every record delivered to Logger::log exactly one write of the
\* event's buffer is made to the output stream, and the bytes end with a
\* single trailing newline.
C5_ExactlyOneWrite ==
    \A id \in DOMAIN calls :
        (calls[id].status /= "active" /\ Input(calls[id].input).kind = "log") =>
            /\ WroteOnce(id)
            /\ Last(Buffer(id)) = NL
            /\ Buffer(id)[Len(Buffer(id)) - 1] /= NL

\* the text the program hands the logger for this input holds an escape character
RECURSIVE AnyEsc(_)
AnyEsc(items) ==
    /\ items /= <<>>
    /\ \/ Head(items).op /= "err" /\
          Count(IF "text" \in DOMAIN Head(items) THEN Head(items).text ELSE Head(items).v, ESC) > 0
       \/ AnyEsc(Tail(items))

EscInInput(name) ==
    \/ Count(Input(name).meta.module_path, ESC) > 0
    \/ Input(name).as_str /= <<>> /\ Count(Input(name).as_str[1], ESC) > 0
    \/ AnyEsc(Input(name).items)

\* C8 as stated: with color off, the rendered output of any event contains no
\* escape character, for any input.
C8_NoEscapeInOutput ==
    ~color => \A i \in DOMAIN output : Count(output[i].bytes, ESC) = 0

\* C8 as amended: with color off the logger writes no escape character of its
\* own: the rendered buffer of an event holds an escape character only if the
\* event's module path, message or field text holds one.
C8_NoEscapeOfItsOwn ==
    ~color =>
        \A id \in DOMAIN calls :
            ~EscInInput(calls[id].input) => Count(Buffer(id), ESC) = 0

C8_Witness ==
    /\ ~color
    /\ \E id \in DOMAIN calls :
          /\ calls[id].input = "RecNested"
          /\ calls[id].status = "returned"
          /\ Bytes(id) = Buffer(id)
          /\ Count(Bytes(id), ESC) = 0

------------------------------------------------------------------------------
(* Properties of the span walk (SpecTracing) *)

\* what the event's closure wrote before the span walk: its prefix and fields
OwnText(id) ==
    record_all(Indented_new(write_prefix(color, StringSink(<<>>), Input(calls[id].input).meta,
                                         [align |-> TRUE, time |-> Input(calls[id].input).time]).output, 8),
               Input(calls[id].input).items).sink.output

CachedPrefix(span) == SubSeq(span.content, 1, span.prefix_end_index)

CachedFields(span) == SubSeq(span.content, span.prefix_end_index + 1, Len(span.content))

\* the "(... ago)" annotation of a span for an event emitted at `instant`
Annotation(span, instant) ==
    write_elapsed(color, StringSink(<<>>), Elapsed(instant, span.timestamp)).output

NameLine(span) == IF span.name = <<>> THEN <<>> ELSE (<<NL>> \o Spaces(8)) \o span.name

\* the block of one ancestor: a newline and the cached prefix at indent 6,
\* then the name and the cached field text at indent 8
AncestorBlock(span, instant) ==
    ((((<<NL>> \o Spaces(6)) \o CachedPrefix(span)) \o Annotation(span, instant))
        \o NameLine(span)) \o Reindent(CachedFields(span), 8)

\* the blocks of span id and of its ancestors, innermost first
RECURSIVE AncestorBlocks(_, _)
AncestorBlocks(id, instant) ==
    IF id = 0 THEN <<>>
    ELSE AncestorBlock(spans[id], instant) \o AncestorBlocks(spans[id].parent, instant)

\* the event's buffer is complete and its write has not returned: the spans
\* are as the walk read them
Rendered(id) ==
    /\ Input(calls[id].input).kind = "event"
    /\ calls[id].status = "active"
    /\ calls[id].buf /= <<>>

\* C6: for an event emitted inside a span, on_event's output holds, in this
\* order, the event's own prefix and fields, then the block of each ancestor
\* from innermost to outermost, each block being a newline, the span's cached
\* prefix at indent 6, then its name and its cached field text at indent 8.
C6_AncestorBlocksInnermostFirst ==
    \A id \in DOMAIN calls :
        Rendered(id) =>
            Buffer(id) = (OwnText(id) \o AncestorBlocks(calls[id].parent, calls[id].instant))
                            \o <<NL>>

\* the scenario: spans "outer" then "inner", each with x = 1, and event "go" under "inner"
C6_Witness ==
    /\ ~color
    /\ \E id \in DOMAIN calls :
          /\ Rendered(id)
          /\ calls[id].input = "EvGo"
          /\ calls[id].parent /= 0
          /\ spans[calls[id].parent].name = <<"i", "n", "n", "e", "r">>
          /\ spans[calls[id].parent].parent /= 0
          /\ spans[spans[calls[id].parent].parent].name = <<"o", "u", "t", "e", "r">>
          /\ spans[spans[calls[id].parent].parent].parent = 0
          /\ calls[id].instant = Instants[1]
          /\ IsSuffixOf(Flatten(<< <<NL>>, Spaces(8), <<"g", "o">>,
                                   <<NL>>, Spaces(6), <<"U+25CB", " ", "d", "e", "b", "u", "g", " ", "a", ":", "3">>,
                                   <<NL>>, Spaces(8), <<"i", "n", "n", "e", "r">>,
                                   <<NL>>, Spaces(8), <<"x", ":", " ", "1">>,
                                   <<NL>>, Spaces(6), <<"U+25CF", " ", "i", "n", "f", "o", " ", "a", ":", "3">>,
                                   <<NL>>, Spaces(8), <<"o", "u", "t", "e", "r">>,
                                   <<NL>>, Spaces(8), <<"x", ":", " ", "1">>,
                                   <<NL>> >>),
                        Buffer(id))

------------------------------------------------------------------------------
(* Properties of write_prefix's text (SpecPrefix) *)

\* s with every "::" replaced by "/", read from the left
RECURSIVE ColonsToSlash(_)
ColonsToSlash(s) ==
    IF s = <<>> THEN <<>>
    ELSE IF Len(s) >= 2 /\ s[1] = ":" /\ s[2] = ":"
         THEN <<"/">> \o ColonsToSlash(SubSeq(s, 3, Len(s)))
         ELSE <<s[1]>> \o ColonsToSlash(Tail(s))

\* a number of at most two digits in decimal
Decimal2(n) == IF n < 10 THEN <<Digits[n + 1]>> ELSE <<Digits[(n \div 10) + 1], Digits[(n % 10) + 1]>>

\* the icon and tag of each severity
IconAndTag(level) ==
    CASE level = "Trace" -> <<"U+2192", " ", "t", "r", "a", "c", "e">>
      [] level = "Debug" -> <<"U+25CB", " ", "d", "e", "b", "u", "g">>
      [] level = "Info"  -> <<"U+25CF", " ", "i", "n", "f", "o">>
      [] level = "Warn"  -> <<"U+26A0", " ", "w", "a", "r", "n">>
      [] level = "Error" -> <<"U+2718", " ", "e", "r", "r", "o", "r">>

PlainPrefix(meta) ==
    ((IconAndTag(meta.level) \o <<" ">>) \o ColonsToSlash(meta.module_path))
        \o (IF meta.line = <<>> THEN <<>> ELSE <<":">> \o Decimal2(meta.line[1]))

\* C11: with color off, no alignment and no timestamp, write_prefix produces
\* exactly the severity's icon, a space, the lowercase tag, a space, the module
\* path with every "::" replaced by "/", and, when a line number is present,
\* ":" and the decimal line number.
C11_PlainPrefixText ==
    (PrefixDone /\ ~color /\ ~PrefixOpts.align /\ PrefixOpts.time = <<>>) =>
        PrefixText = PlainPrefix(PrefixMeta)

\* Error, "a::b::c", line 42 gives exactly the text of the scenario
C11_Witness ==
    /\ PrefixDone /\ ~color /\ ~PrefixOpts.align /\ PrefixOpts.time = <<>>
    /\ PrefixMeta = [level |-> "Error", module_path |-> <<"a", ":", ":", "b", ":", ":", "c">>,
                     line |-> <<42>>]
    /\ PrefixText = <<"U+2718", " ", "e", "r", "r", "o", "r", " ", "a", "/", "b", "/", "c", ":", "4", "2">>

\* the text write_prefix wrote after its last space: the timestamp, after
\* the dim escape when color is on
AfterLastSpace(s) == SubSeq(s, CHOOSE i \in 1..Len(s) : s[i] = SP /\ \A j \in (i + 1)..Len(s) : s[j] /= SP, Len(s))

TimeText ==
    IF color THEN SubSeq(AfterLastSpace(PrefixText), 7, Len(AfterLastSpace(PrefixText)))
    ELSE Tail(AfterLastSpace(PrefixText))

\* the hour of the 12-hour clock: 1 to 12
Hour12(hour) == IF hour % 12 = 0 THEN 12 ELSE hour % 12

Pad2(n) == <<Digits[(n \div 10) + 1], Digits[(n % 10) + 1]>>

ClockText(time) ==
    ((((Decimal2(Hour12(time.hour)) \o <<":">>) \o Pad2(time.minute)) \o <<":">>) \o Pad2(time.second))
        \o (IF time.hour < 12 THEN <<"-", "A", "M", "-">> ELSE <<"-", "P", "M", "-">>)

\* C16: when a timestamp is supplied, write_prefix renders the hour of the
\* 12-hour clock without a leading zero (1 to 12: 0 and 12 both show as 12,
\* 13..23 as 1..11), ":", the minute on two digits, ":", the second on two
\* digits, then "-AM-" for hours 0..11 and "-PM-" for hours 12..23.
C16_TwelveHourClock ==
    (PrefixDone /\ PrefixOpts.time /= <<>>) =>
        IsPrefixOf(ClockText(PrefixOpts.time[1]), TimeText)

\* every hour but 0 is rendered as the 12-hour clock has it
C16_ExceptMidnight ==
    (PrefixDone /\ PrefixOpts.time /= <<>> /\ PrefixOpts.time[1].hour /= 0) =>
        IsPrefixOf(ClockText(PrefixOpts.time[1]), TimeText)

------------------------------------------------------------------------------
(* Properties of the field visitor (SpecVisitor) *)

\* a string as its Debug form: in double quotes, with '\n', '"' and '\' escaped
RECURSIVE Escaped(_)
Escaped(v) ==
    IF v = <<>> THEN <<>>
    ELSE (CASE Head(v) = NL -> <<"\\", "n">>
            [] Head(v) = "\"" -> <<"\\", "\"">>
            [] Head(v) = "\\" -> <<"\\", "\\">>
            [] OTHER -> <<Head(v)>>) \o Escaped(Tail(v))

\* the Debug form of a field's value
DebugText(f) ==
    CASE f.ty = "str" -> (<<"\"">> \o Escaped(f.v)) \o <<"\"">>
      [] f.ty = "debug" -> f.v
      [] f.ty = "bool" -> (IF f.v THEN <<"t", "r", "u", "e">> ELSE <<"f", "a", "l", "s", "e">>)
      [] f.ty = "u64" -> Decimal2(f.v)

FieldText(f) ==
    IF f.name = message
    THEN <<NL>> \o (IF f.ty = "str" THEN f.v ELSE DebugText(f))
    ELSE ((<<NL>> \o f.name) \o <<":", " ">>) \o DebugText(f)

\* C12: the field visitor renders every field as a newline, "name: " and the
\* value, except the field named "message", which gets no name: a string
\* message is emitted raw, a non-string message is debug-formatted, a string
\* value of another field is debug-quoted, an integer is in plain decimal.
C12_FieldText ==
    visitCall.content =
        visitCall.target \o
        Flatten([k \in 1..visitCall.i |-> FieldText(visitCall.fields[k])])

\* message = "hi" then count = 5 give "\nhi\ncount: 5"
C12_Witness ==
    /\ visitCall.fields = <<Field(message, "str", <<"h", "i">>), Field(count, "u64", 5)>>
    /\ visitCall.i = 2
    /\ visitCall.content = <<NL, "h", "i", NL, "c", "o", "u", "n", "t", ":", " ", "5">>

------------------------------------------------------------------------------
(* Properties of the lock's scope (SpecFlush) *)

\* a thread that holds the lock is in flush's flush call, or in write_all on a
\* buffer that is complete: the one recorded when its rendering ended
HolderOnlyWrites ==
    \A t \in Threads :
        lock.holder = t =>
            /\ Depth(t) >= 1
            /\ \/ Top(t).pc = "flush"
               \/ /\ Top(t).pc = "write"
                  /\ calls[Top(t).id].buf /= <<>>
                  /\ BufOf(t, Top(t)) = Buffer(Top(t).id)
                  /\ Last(Buffer(Top(t).id)) = NL

\* a thread takes the lock only for a buffer whose rendering has ended, holds
\* it over steps that render nothing, and gives it up when its call ends
LockScope ==
    \A t \in Threads :
        /\ (lock.holder = t /\ lock'.holder = t) =>
              /\ BUF'[t] = BUF[t]
              /\ \A id \in DOMAIN calls : calls[id].thread = t => calls'[id] = calls[id]
              /\ Len(stack'[t]) = Len(stack[t])
              /\ stack'[t][Len(stack[t])].fresh = Top(t).fresh
              /\ stack'[t][Len(stack[t])].pc = Top(t).pc
        /\ (lock.holder = t /\ Len(stack'[t]) < Len(stack[t])) => lock'.holder = 0
        /\ (lock.holder /= t /\ lock'.holder = t) =>
              (Depth(t) = 0 \/ Top(t).pc = "lock")

\* C13: in every reachable state, a thread that holds the shared output lock
\* is doing nothing but writing one already fully rendered buffer (or, in
\* flush, one flush call): no rendering happens while the lock is held, and
\* the lock is released when that write returns.
C13_LockCoversOnlyTheWrite ==
    []HolderOnlyWrites /\ [][LockScope]_vars

\* one thread holds the lock in write_all while the other formats its message
C13_Witness ==
    \E t, u \in Threads :
        /\ t /= u
        /\ lock.holder = t /\ Top(t).pc = "write"
        /\ Depth(u) >= 1 /\ Top(u).pc = "fmt" /\ Top(u).idx > 1

------------------------------------------------------------------------------
(* Properties of the thread-local String (Spec) *)

\* the calls of thread t that were handed the thread-local String: those made
\* while no other call ran on the thread
Owners(t) == {id \in DOMAIN calls : calls[id].thread = t /\ calls[id].depth = 1}

\* the call that had the thread-local String before call id was handed it
Previous(id) ==
    {p \in Owners(calls[id].thread) :
        /\ calls[id].depth = 1
        /\ p < id
        /\ \A q \in Owners(calls[id].thread) : q < id => q <= p}

\* the last call that was handed the String of thread t
LastOwner(t) == {id \in Owners(t) : \A q \in Owners(t) : q <= id}

OwnPrefix(id) ==
    write_prefix(color, StringSink(<<>>), Input(calls[id].input).meta,
                 [align |-> TRUE, time |-> Input(calls[id].input).time]).output

\* the String was cleared when the call that has it started: until the call
\* writes, the String holds that call's text from its first character, and
\* from then on the buffer the call handed to write_all
ClearedAtStart ==
    \A t \in Threads :
        (Depth(t) >= 1 /\ stack[t][1].local) =>
            IF stack[t][1].pos = 0
            THEN IsPrefixOf(OwnPrefix(stack[t][1].id), BUF[t].content)
            ELSE BUF[t].content = Buffer(stack[t][1].id)

\* at most one active call of a thread has the String, the outermost one, and
\* the String is borrowed exactly while that call runs
OneCallHasIt ==
    \A t \in Threads :
        /\ Cardinality({i \in 1..Depth(t) : stack[t][i].local}) <= 1
        /\ BUF[t].borrowed = (\E i \in 1..Depth(t) : stack[t][i].local)
        /\ \A id \in Owners(t) : calls[id].status = "active" => id \in LastOwner(t)

\* C14 as stated: the thread-local buffer is cleared at the start of each call
\* before anything is rendered into it, it is never cleared or handed to
\* another call while its previous content has not been completely written to
\* the output stream, and at most one active call on the thread has access to it.
C14_ClearedOnlyAfterWritten ==
    /\ ClearedAtStart
    /\ OneCallHasIt
    /\ \A id \in DOMAIN calls : \A p \in Previous(id) :
          calls[p].status = "returned" /\ Bytes(p) = Buffer(p)

\* C14 as amended: the buffer is cleared at the start of each call, it is never
\* cleared or handed to another call while the call that has it is active, and
\* at most one active call on the thread has access to it; when it is cleared
\* its previous content has been completely written to the output stream,
\* unless the call that rendered it ended in a fmt or I/O failure, whose
\* unwritten content the clear discards.
C14_ClearedOnlyAfterCallEnded ==
    /\ ClearedAtStart
    /\ OneCallHasIt
    /\ \A id \in DOMAIN calls : \A p \in Previous(id) :
          /\ calls[p].status /= "active"
          /\ calls[p].status = "returned" => Bytes(p) = Buffer(p)
          /\ calls[p].status = "panicked" =>
                \E i \in DOMAIN panicked[calls[p].thread] :
                    panicked[calls[p].thread][i].cause \in {"fmt", "io"}

\* a thread's second call has the String of its first, which returned, and has
\* rendered its own text into it
C14_Witness ==
    \E t \in Threads : \E id \in LastOwner(t) : \E p \in Previous(id) :
        /\ calls[p].status = "returned"
        /\ calls[id].status = "active"
        /\ Top(t).pc = "write"
        /\ BUF[t].content = Buffer(id)
        /\ Buffer(p) /= Buffer(id)

------------------------------------------------------------------------------
(* Properties of SpanData (SpecTracing) *)

\* the first prefix_end_index bytes of every SpanData's content are the prefix
\* of the span's metadata, rendered without alignment and without timestamp
PrefixKept ==
    \A id \in Open :
        /\ spans[id].prefix_end_index <= Len(spans[id].content)
        /\ CachedPrefix(spans[id]) =
              write_prefix(color, StringSink(<<>>), spans[id].meta,
                           [align |-> FALSE, time |-> <<>>]).output
        /\ ~color => CachedPrefix(spans[id]) = PlainPrefix(spans[id].meta)

\* a step keeps every span's prefix_end_index and timestamp and only appends
\* to its content; a step that records no values on a span, such as every
\* step of on_event, leaves its SpanData as it is
SpanDataFrame ==
    \A id \in DOMAIN spans :
        /\ spans'[id].prefix_end_index = spans[id].prefix_end_index
        /\ spans'[id].timestamp = spans[id].timestamp
        /\ IsPrefixOf(spans[id].content, spans'[id].content)
        /\ spans'[id].records = spans[id].records => spans'[id] = spans[id]
        /\ (calls' /= calls \/ stack' /= stack) => spans'[id] = spans[id]

\* C15: after any sequence of on_record and on_event calls following
\* on_new_span, a span's prefix_end_index and creation timestamp keep the
\* values set at creation, the first prefix_end_index bytes of content are
\* still the prefix rendered at creation, on_record only appends field text,
\* and on_event leaves the SpanData of every ancestor unchanged.
C15_SpanDataKept ==
    []PrefixKept /\ [][SpanDataFrame]_vars

\* values were recorded on a span created with x = 1, and an event under it
\* has walked it
C15_Witness ==
    /\ ~color
    /\ \E id \in Open :
          /\ spans[id].records = 1
          /\ spans[id].timestamp = Instants[1]
          /\ CachedPrefix(spans[id]) = <<"U+25CF", " ", "i", "n", "f", "o", " ", "a", ":", "3">>
          /\ CachedFields(spans[id]) = <<NL, "x", ":", " ", "1", NL, "y", ":", " ", "\"", "v", "\"">>
          /\ \E c \in DOMAIN calls : calls[c].parent = id /\ calls[c].status = "returned"

====
